---------------------------- MODULE Spec2Model ----------------------------
(***************************************************************************)
(* EnvelopeService (packages/core/src/agent/EnvelopeService.ts):           *)
(* packMessage wraps an AgentMessage once for its recipients and once per  *)
(* routing key; unpackMessage removes one layer.  The wallet's pack and    *)
(* unpack are the injected cryptographic capability: a WireMessage is kept *)
(* symbolically as (recipients, sender, plaintext), readable by a wallet   *)
(* that holds one of the recipient keys.                                    *)
(*                                                                         *)
(* One action is one run of handler code between two suspension points:    *)
(* the call up to its first await, or the continuation of an await up to   *)
(* the next await, the return or the throw.                                 *)
(***************************************************************************)
EXTENDS Integers, Sequences, FiniteSets, TLC

VARIABLES
  config,   \* EnvelopeService.config: [useLegacyDidSovPrefix]
  pk,       \* the packMessage call: its locals, position and call history
  up,       \* the unpackMessage call of a receiving agent
  transit,  \* WireMessages handed to the transport
  walletLog,\* the wallet's side: the pack and unpack calls it got and answered
  cpk,      \* packMessage calls running concurrently on the one service
  clog,     \* the wallet.pack calls each of them made
  ic,       \* the call of an IndyIssuerService / IndyVerifierService operation
  tk        \* the toolkit's and the file system's side of that call

vars == <<config, pk, up, transit, walletLog, cpk, clog, ic, tk>>
concVars == <<cpk, clog>>
indyVars == <<ic, tk>>
envelopeVars == <<config, pk, up, transit, walletLog, concVars>>

----------------------------------------------------------------------------
(* Bounds of the model *)

MaxRecipients == 2
MaxRouting == 2

(* Values *)

RecipientKeySet == {"R1", "M1"}   \* "M1" is also a mediator's key
RoutingKeySet == {"M1", "M2"}
SenderKeySet == {"S1"}
Keys == RecipientKeySet \cup RoutingKeySet
Null == "null"
Undefined == "undefined"
MessageTypes == {"trust_ping/1.0/ping", "basicmessage/1.0/message"}
ForwardType == "routing/1.0/forward"
\* the errors a wallet call rejects with: error objects, here their names
WalletErrors == {[name |-> "WalletItemNotFound"], [name |-> "WalletInvalidStructure"]}

SeqsUpTo(S, n) == UNION {[1..k -> S] : k \in 0..n}
Range(s) == {s[i] : i \in 1..Len(s)}

\* interface EnvelopeKeys
EnvelopeKeys ==
  [recipientKeys : SeqsUpTo(RecipientKeySet, MaxRecipients),
   routingKeys : SeqsUpTo(RoutingKeySet, MaxRouting),
   senderKey : SenderKeySet \cup {Null}]

\* the payloads a caller passes: AgentMessage instances
AgentMessages == [type : MessageTypes]

----------------------------------------------------------------------------
(* Collaborators: message serialization and the wallet *)

DidCommPrefix == "https://didcomm.org"
LegacyDidSovPrefix == "did:sov:BzCbsNYhMrjHiqZDTUASHg;spec"

\* AgentMessage.toJSON({ useLegacyDidSovPrefix }): the message's fields, its
\* type rendered under the current or the legacy prefix.
toJSON(message, useLegacyDidSovPrefix) ==
  [f \in DOMAIN message |->
     IF f = "type"
       THEN <<IF useLegacyDidSovPrefix THEN LegacyDidSovPrefix ELSE DidCommPrefix,
              message[f]>>
       ELSE message[f]]

\* new ForwardMessage({ to, message })
ForwardMessage(to, message) ==
  [type |-> ForwardType, to |-> to, message |-> message]

IsForwardJson(json) == json.type[2] = ForwardType

\* Wallet.pack(payload, recipientKeys, senderVerkey?) when it resolves
WalletPack(payload, recipientKeys, senderKey) ==
  [recipients |-> recipientKeys, sender |-> senderKey, plaintext |-> payload]

\* Wallet.unpack(messagePackage) can resolve in a wallet holding walletKey
WalletCanUnpack(wire, walletKey) == walletKey \in Range(wire.recipients)

\* Wallet.unpack(messagePackage) when it resolves: UnpackedMessageContext
WalletUnpack(wire, walletKey) ==
  [message |-> wire.plaintext, senderKey |-> wire.sender, recipientKey |-> walletKey]

----------------------------------------------------------------------------
(* EnvelopeService.packMessage *)

\* the arguments of one wallet.pack call
PackArgs(message, recipientKeys, senderKey) ==
  [message |-> message, recipientKeys |-> recipientKeys, senderKey |-> senderKey]

\* a variant of InnerSenderKey: the payload is always anon packed
InnerSenderKeyDropped(senderKey) == Undefined

\* line 40: senderKey ?? undefined
InnerSenderKey(senderKey) == IF senderKey = Null THEN Undefined ELSE senderKey

\* line 40: the recipients of the innermost layer
InnerRecipients(keys) == keys.recipientKeys

\* a variant of ForwardTo: every hop is addressed to the caller's first
\* recipient key, not to the working list's
ForwardToCallerRecipient(recipientKeys) ==
  IF Len(pk.keys[1].recipientKeys) = 0 THEN Undefined ELSE pk.keys[1].recipientKeys[1]

\* a variant of ForwardTo: the working recipient list is one list shared by
\* the calls in progress, so a call may read what another call assigned
ForwardToSharedList(recipientKeys) ==
  LET others == {c \in DOMAIN cpk : /\ cpk[c].pc = "awaitPack"
                                    /\ cpk[c].recipientKeys # recipientKeys}
  IN IF others = {}
       THEN IF Len(recipientKeys) = 0 THEN Undefined ELSE recipientKeys[1]
       ELSE LET other == cpk[CHOOSE c \in others : TRUE].recipientKeys
            IN IF Len(other) = 0 THEN Undefined ELSE other[1]

\* line 46: to: recipientKeys[0]
ForwardTo(recipientKeys) ==
  IF Len(recipientKeys) = 0 THEN Undefined ELSE recipientKeys[1]

\* a variant of ForwardRecipients: the forward layer is packed for the
\* working recipient list as it was before line 49 reassigned it
ForwardRecipientsBeforeReassign(routingKey) == pk.recipientKeys

\* line 55: the recipients of a forward layer
ForwardRecipients(routingKey) == <<routingKey>>

\* a variant of ForwardSenderKey: the forward layer is packed like the payload
ForwardSenderKeyAuthcrypt(senderKey) == InnerSenderKey(senderKey)

\* line 55: the sender key of a forward layer (undefined: anon packed)
ForwardSenderKey(senderKey) == Undefined

\* a variant of ForwardLegacyPrefixOption: forward messages are serialised
\* with toJSON's default
ForwardLegacyPrefixOptionDefault == FALSE

\* line 36: { useLegacyDidSovPrefix: this.config.useLegacyDidSovPrefix }
PayloadLegacyPrefixOption == config.useLegacyDidSovPrefix

\* line 52: { useLegacyDidSovPrefix: this.config.useLegacyDidSovPrefix }
ForwardLegacyPrefixOption == config.useLegacyDidSovPrefix

\* toJSONCalls: the useLegacyDidSovPrefix option of each toJSON call made
IdlePack ==
  [pc |-> "idle", payload |-> <<>>, keys |-> <<>>, recipientKeys |-> <<>>,
   wireMessage |-> <<>>, hop |-> 0, pending |-> <<>>, forwards |-> <<>>,
   toJSONCalls |-> <<>>, result |-> <<>>, error |-> <<>>]

\* a variant of PackCalled: several recipient keys with a routing key are
\* refused before anything is packed
PackCalledRefusingFanOut(payload, keys) ==
  IF Len(keys.recipientKeys) > 1 /\ Len(keys.routingKeys) >= 1
    THEN [IdlePack EXCEPT !.pc = "failed", !.payload = <<payload>>, !.keys = <<keys>>,
                          !.recipientKeys = keys.recipientKeys,
                          !.error = <<[name |-> "UnsupportedOperationError"]>>]
    ELSE [IdlePack EXCEPT !.pc = "awaitPack", !.payload = <<payload>>, !.keys = <<keys>>,
                          !.recipientKeys = keys.recipientKeys,
                          !.pending = <<PackArgs(toJSON(payload, config.useLegacyDidSovPrefix),
                                                 keys.recipientKeys,
                                                 IF keys.senderKey = Null THEN Undefined
                                                                          ELSE keys.senderKey)>>]

\* lines 31-40: from the call to the first await
PackCalled(payload, keys) ==
  LET message == toJSON(payload, PayloadLegacyPrefixOption)
      args == PackArgs(message, InnerRecipients(keys), InnerSenderKey(keys.senderKey))
  IN [IdlePack EXCEPT !.pc = "awaitPack", !.payload = <<payload>>, !.keys = <<keys>>,
                      !.recipientKeys = keys.recipientKeys,
                      !.toJSONCalls = <<PayloadLegacyPrefixOption>>,
                      !.pending = <<args>>]

\* a variant of HasNextHop: the loop stops one routing key early
HasNextHopButLast(st) == st.hop + 1 < Len(st.keys[1].routingKeys)

\* line 43: the for-of loop has another routing key
HasNextHop(st) == st.hop < Len(st.keys[1].routingKeys)

\* a variant of PackResolvedNextHop: the forward layers of all the remaining
\* routing keys are packed at once, none awaiting the one before
PackResolvedNextHopAllAtOnce(st, wire) ==
  LET rest == SubSeq(st.keys[1].routingKeys, st.hop + 1, Len(st.keys[1].routingKeys))
      to(i) == IF i = 1 THEN ForwardTo(st.recipientKeys) ELSE rest[i - 1]
      forwardMessages == [i \in 1..Len(rest) |-> ForwardMessage(to(i), wire)]
  IN [st EXCEPT !.wireMessage = <<wire>>, !.forwards = @ \o forwardMessages,
                !.recipientKeys = <<rest[Len(rest)]>>, !.hop = @ + Len(rest),
                !.toJSONCalls = @ \o [i \in 1..Len(rest) |-> ForwardLegacyPrefixOption],
                !.pending = [i \in 1..Len(rest) |->
                               PackArgs(toJSON(forwardMessages[i], ForwardLegacyPrefixOption),
                                        <<rest[i]>>, Undefined)]]

\* a variant of PackResolvedNextHop: the loop does not move on to the next
\* routing key
PackResolvedNextHopSameKey(st, wire) ==
  LET routingKey == st.keys[1].routingKeys[st.hop + 1]
      forwardMessage == ForwardMessage(ForwardTo(st.recipientKeys), wire)
      forwardJson == toJSON(forwardMessage, ForwardLegacyPrefixOption)
      args == PackArgs(forwardJson, <<routingKey>>, Undefined)
  IN [st EXCEPT !.wireMessage = <<wire>>, !.forwards = Append(@, forwardMessage),
                !.recipientKeys = <<routingKey>>,
                !.toJSONCalls = Append(@, ForwardLegacyPrefixOption),
                !.pending = <<args>>]

\* a variant of PackResolvedNextHop: the working recipient list is
\* overwritten in place, in the caller's keys object
PackResolvedNextHopWritingKeys(st, wire) ==
  LET routingKey == st.keys[1].routingKeys[st.hop + 1]
      forwardMessage == ForwardMessage(ForwardTo(st.recipientKeys), wire)
      forwardJson == toJSON(forwardMessage, ForwardLegacyPrefixOption)
      args == PackArgs(forwardJson, <<routingKey>>, Undefined)
  IN [st EXCEPT !.wireMessage = <<wire>>, !.forwards = Append(@, forwardMessage),
                !.keys[1].recipientKeys = <<routingKey>>,
                !.recipientKeys = <<routingKey>>, !.hop = @ + 1,
                !.toJSONCalls = Append(@, ForwardLegacyPrefixOption),
                !.pending = <<args>>]

\* lines 40/55 then 43-55: an await resolves with wire and the loop body runs
\* up to its await
PackResolvedNextHop(st, wire) ==
  LET routingKey == st.keys[1].routingKeys[st.hop + 1]
      forwardMessage == ForwardMessage(ForwardTo(st.recipientKeys), wire)
      forwardJson == toJSON(forwardMessage, ForwardLegacyPrefixOption)
      args == PackArgs(forwardJson, ForwardRecipients(routingKey),
                       ForwardSenderKey(st.keys[1].senderKey))
  IN [st EXCEPT !.wireMessage = <<wire>>, !.forwards = Append(@, forwardMessage),
                !.recipientKeys = <<routingKey>>, !.hop = @ + 1,
                !.toJSONCalls = Append(@, ForwardLegacyPrefixOption),
                !.pending = <<args>>]

\* a variant of PackResolvedReturn: the WireMessage of the layer before the
\* last is returned
PackResolvedReturnInner(st, wire) ==
  [st EXCEPT !.pc = "done", !.pending = <<>>, !.result = st.wireMessage]

\* lines 40/55 then 43, 58: an await resolves with wire, the loop is over
PackResolvedReturn(st, wire) ==
  [st EXCEPT !.pc = "done", !.wireMessage = <<wire>>, !.pending = <<>>,
             !.result = <<wire>>]

\* a variant of PackRejected: the rejection is caught and the WireMessage
\* packed so far is returned
PackRejectedReturningPartial(st, err) ==
  [st EXCEPT !.pc = "done", !.pending = <<>>, !.result = st.wireMessage]

\* a variant of PackRejected: the rejection is caught and the same call made again
PackRejectedRetrying(st, err) == st

\* lines 40/55: an await rejects; nothing catches it
PackRejected(st, err) ==
  [st EXCEPT !.pc = "failed", !.pending = <<>>, !.error = <<err>>]

\* the wallet.pack call in flight, as the wallet resolves it
PendingWire(st) ==
  WalletPack(st.pending[1].message, st.pending[1].recipientKeys, st.pending[1].senderKey)

\* what the wallet sees of a step of packMessage: the call it issued, and the
\* WireMessage or the error the wallet answered the previous call with
WalletSeesPack(st, returned, raised) ==
  [walletLog EXCEPT !.packCalls = @ \o st.pending,
                    !.packReturns = @ \o returned,
                    !.packErrors = @ \o raised]

PackMessage ==
  /\ pk.pc = "idle"
  /\ \E payload \in AgentMessages, keys \in EnvelopeKeys :
       pk' = PackCalled(payload, keys)
  /\ walletLog' = WalletSeesPack(pk', <<>>, <<>>)
  /\ UNCHANGED <<config, up, transit, concVars, indyVars>>

WalletPackResolvesNextHop ==
  /\ pk.pc = "awaitPack"
  /\ HasNextHop(pk)
  /\ pk' = PackResolvedNextHop(pk, PendingWire(pk))
  /\ walletLog' = WalletSeesPack(pk', <<PendingWire(pk)>>, <<>>)
  /\ UNCHANGED <<config, up, transit, concVars, indyVars>>

WalletPackResolvesReturn ==
  /\ pk.pc = "awaitPack"
  /\ ~HasNextHop(pk)
  /\ pk' = PackResolvedReturn(pk, PendingWire(pk))
  /\ walletLog' = WalletSeesPack(pk', <<PendingWire(pk)>>, <<>>)
  /\ transit' = transit \cup Range(pk'.result)
  /\ UNCHANGED <<config, up, concVars, indyVars>>

WalletPackRejects ==
  /\ pk.pc = "awaitPack"
  /\ \E err \in WalletErrors :
       /\ pk' = PackRejected(pk, err)
       /\ walletLog' = WalletSeesPack(pk', <<>>, <<err>>)
  /\ transit' = transit \cup Range(pk'.result)
  /\ UNCHANGED <<config, up, concVars, indyVars>>

----------------------------------------------------------------------------
(* EnvelopeService.unpackMessage *)

IdleUnpack ==
  [pc |-> "idle", packedMessage |-> <<>>, walletKey |-> Undefined,
   pending |-> <<>>, result |-> <<>>, error |-> <<>>]

\* lines 61-62: from the call to the await
UnpackCalled(packedMessage, walletKey) ==
  [IdleUnpack EXCEPT !.pc = "awaitUnpack", !.packedMessage = <<packedMessage>>,
                     !.walletKey = walletKey, !.pending = <<packedMessage>>]

\* a variant of UnpackResolved: a forward message is unwrapped further, its
\* embedded message decrypted and returned in its place
UnpackResolvedUnwrapping(st, context) ==
  [st EXCEPT !.pc = "done", !.pending = <<>>,
             !.result = IF IsForwardJson(context.message)
                          THEN <<WalletUnpack(context.message.message, context.message.to)>>
                          ELSE <<context>>]

\* line 62: the await resolves and its value is returned
UnpackResolved(st, context) ==
  [st EXCEPT !.pc = "done", !.pending = <<>>, !.result = <<context>>]

\* line 62: the await rejects; nothing catches it
UnpackRejected(st, err) ==
  [st EXCEPT !.pc = "failed", !.pending = <<>>, !.error = <<err>>]

\* what the wallet sees of a step of unpackMessage
WalletSeesUnpack(log, st, returned, raised) ==
  [log EXCEPT !.unpackCalls = @ \o st.pending,
              !.unpackReturns = @ \o returned,
              !.unpackErrors = @ \o raised]

\* a receiving agent, its wallet holding walletKey, is handed a WireMessage
\* in transit; the wallet's record of the agent's previous call is dropped
UnpackMessage ==
  /\ up.pc \in {"idle", "done", "failed"}
  /\ \E packedMessage \in transit, walletKey \in Keys :
       up' = UnpackCalled(packedMessage, walletKey)
  /\ walletLog' = WalletSeesUnpack(
         [walletLog EXCEPT !.unpackCalls = <<>>, !.unpackReturns = <<>>,
                           !.unpackErrors = <<>>], up', <<>>, <<>>)
  /\ UNCHANGED <<config, pk, transit, concVars, indyVars>>

WalletUnpackResolves ==
  /\ up.pc = "awaitUnpack"
  /\ WalletCanUnpack(up.pending[1], up.walletKey)
  /\ LET context == WalletUnpack(up.pending[1], up.walletKey)
     IN /\ up' = UnpackResolved(up, context)
        /\ walletLog' = WalletSeesUnpack(walletLog, up', <<context>>, <<>>)
  /\ UNCHANGED <<config, pk, transit, concVars, indyVars>>

WalletUnpackRejects ==
  /\ up.pc = "awaitUnpack"
  /\ \E err \in WalletErrors :
       /\ up' = UnpackRejected(up, err)
       /\ walletLog' = WalletSeesUnpack(walletLog, up', <<>>, <<err>>)
  /\ UNCHANGED <<config, pk, transit, concVars, indyVars>>

\* the dispatch layer of a relay: a decrypted forward message's embedded
\* WireMessage is sent on
RelayForwards ==
  /\ up.pc = "done"
  /\ IsForwardJson(up.result[1].message)
  /\ up.result[1].message.message \notin transit
  /\ transit' = transit \cup {up.result[1].message.message}
  /\ UNCHANGED <<config, pk, up, walletLog, concVars, indyVars>>

----------------------------------------------------------------------------

EmptyWalletLog ==
  [packCalls |-> <<>>, packReturns |-> <<>>, packErrors |-> <<>>,
   unpackCalls |-> <<>>, unpackReturns |-> <<>>, unpackErrors |-> <<>>]

(* Concurrent calls on one EnvelopeService *)

\* the packMessage calls in progress at the same time
PackIds == {"a", "b"}

\* what they are called with: each its own payload, for one recipient key,
\* anon packed, through any routing keys
ConcPayload(c) ==
  [type |-> IF c = "a" THEN "trust_ping/1.0/ping" ELSE "basicmessage/1.0/message"]
ConcEnvelopeKeys ==
  {keys \in EnvelopeKeys : Len(keys.recipientKeys) = 1 /\ keys.senderKey = Null}

ConcPackMessage(c) ==
  /\ cpk[c].pc = "idle"
  /\ \E keys \in ConcEnvelopeKeys :
       cpk' = [cpk EXCEPT ![c] = PackCalled(ConcPayload(c), keys)]
  /\ clog' = [clog EXCEPT ![c] = @ \o cpk'[c].pending]
  /\ UNCHANGED <<config, pk, up, transit, walletLog, indyVars>>

ConcWalletPackResolvesNextHop(c) ==
  /\ cpk[c].pc = "awaitPack"
  /\ HasNextHop(cpk[c])
  /\ cpk' = [cpk EXCEPT ![c] = PackResolvedNextHop(cpk[c], PendingWire(cpk[c]))]
  /\ clog' = [clog EXCEPT ![c] = @ \o cpk'[c].pending]
  /\ UNCHANGED <<config, pk, up, transit, walletLog, indyVars>>

ConcWalletPackResolvesReturn(c) ==
  /\ cpk[c].pc = "awaitPack"
  /\ ~HasNextHop(cpk[c])
  /\ cpk' = [cpk EXCEPT ![c] = PackResolvedReturn(cpk[c], PendingWire(cpk[c]))]
  /\ clog' = [clog EXCEPT ![c] = @ \o cpk'[c].pending]
  /\ transit' = transit \cup Range(cpk'[c].result)
  /\ UNCHANGED <<config, pk, up, walletLog, indyVars>>

ConcWalletPackRejects(c) ==
  /\ cpk[c].pc = "awaitPack"
  /\ \E err \in WalletErrors : cpk' = [cpk EXCEPT ![c] = PackRejected(cpk[c], err)]
  /\ clog' = [clog EXCEPT ![c] = @ \o cpk'[c].pending]
  /\ transit' = transit \cup Range(cpk'[c].result)
  /\ UNCHANGED <<config, pk, up, walletLog, indyVars>>

----------------------------------------------------------------------------
(* IndyIssuerService and IndyVerifierService: each operation hands its      *)
(* arguments to one function of the indy toolkit inside a try block whose   *)
(* catch wraps Indy errors. The toolkit, the file system and the error      *)
(* classes are collaborators.                                               *)

IndyOps ==
  {"createSchema", "createCredentialDefinition", "createCredentialOffer",
   "createCredential", "verifyProof"}

\* the toolkit function an operation delegates to
ToolkitFunction(op) ==
  CASE op = "createSchema" -> "issuerCreateSchema"
    [] op = "createCredentialDefinition" -> "issuerCreateAndStoreCredentialDef"
    [] op = "createCredentialOffer" -> "issuerCreateCredentialOffer"
    [] op = "createCredential" -> "issuerCreateCredential"
    [] op = "verifyProof" -> "verifierVerifyProof"

\* CreateCredentialOptions.revocationRegistryId?: string
RevocationRegistryIds == {Undefined, "", "revReg1"}
\* CreateCredentialOptions.tailsFilePath?: string
TailsFilePaths == {Undefined, "", "tails/path"}

\* truthiness of an optional string: undefined and "" are falsy
Truthy(x) == x # Undefined /\ x # ""

\* an error object: its class name, its message and its cause
ErrorOf(name, detail, cause) ==
  [name |-> name, detail |-> detail, cause |-> cause]

AriesFrameworkError(message) == ErrorOf("AriesFrameworkError", message, <<>>)

IndySdkError(indyError) ==
  ErrorOf("IndySdkError", indyError.detail, <<indyError>>)

isIndyError(error) == error.name = "IndyError"

RevocationNotSupported == AriesFrameworkError(<<"Revocation not supported yet">>)

TailsFileMissing(tailsFilePath) ==
  AriesFrameworkError(<<"Tails file does not exist at path", tailsFilePath>>)

\* what a toolkit or file system call can reject with
ToolkitErrors ==
  {ErrorOf("IndyError", <<"WalletItemNotFound">>, <<>>),
   ErrorOf("IndyError", <<"CommonInvalidStructure">>, <<>>),
   ErrorOf("TypeError", <<"not a string">>, <<>>)}

\* what a toolkit or file system call can resolve with
ToolkitReturns(fn) ==
  CASE fn = "issuerCreateSchema" ->
         {<<"schemaId", "schema1">>, <<"schemaId", "schema2">>}
    [] fn = "issuerCreateAndStoreCredentialDef" ->
         {<<"credDefId", "credDef1">>, <<"credDefId", "credDef2">>}
    [] fn = "issuerCreateCredentialOffer" -> {"offer1", "offer2"}
    [] fn = "issuerCreateCredential" ->
         {<<"cred1", Null, Null>>, <<"cred2", Null, Null>>}
    [] fn = "verifierVerifyProof" -> BOOLEAN
    [] fn = "fileSystem.exists" -> BOOLEAN
    [] fn = "openBlobStorageReader" -> {tk.openReaders + 1}

\* what the operation returns of the value its toolkit function resolved with
Returned(fn, value) ==
  CASE fn = "issuerCreateSchema" -> value[2]
    [] fn = "issuerCreateAndStoreCredentialDef" -> value[2]
    [] fn = "issuerCreateCredentialOffer" -> value
    [] fn = "issuerCreateCredential" -> <<value[1], value[2]>>
    [] fn = "verifierVerifyProof" -> value

\* catch (error): an Indy error is wrapped, anything else is thrown again
RethrownWrappingAgain(error) ==
  IF isIndyError(error) \/ error.name = "IndySdkError"
    THEN IndySdkError(error)
    ELSE error

Rethrown(error) ==
  IF isIndyError(error) THEN IndySdkError(error) ELSE error

IdleIndy ==
  [pc |-> "idle", op |-> Null,
   revocationRegistryId |-> Undefined, tailsFilePath |-> Undefined,
   pending |-> <<>>, tailsReaderHandle |-> <<>>,
   result |-> <<>>, error |-> <<>>]

IdleToolkit ==
  [made |-> 0, calls |-> <<>>, returned |-> <<>>, errors |-> <<>>,
   opened |-> <<>>, openReaders |-> 0]

\* an error thrown inside the try block of an operation
IndyThrown(st, error) ==
  [st EXCEPT !.pc = "failed", !.pending = <<>>, !.error = <<Rethrown(error)>>]

\* an error thrown inside createTailsReader: its catch, then createCredential's
TailsReaderThrown(st, error) == IndyThrown(st, Rethrown(error))

\* createCredential from the revocation check on
AfterTailsReader(st) ==
  IF Truthy(st.revocationRegistryId) \/ Truthy(st.tailsFilePath)
    THEN IndyThrown(st, RevocationNotSupported)
    ELSE [st EXCEPT !.pc = "await", !.pending = <<"issuerCreateCredential">>]

\* the operation up to its first await
IndyCalledCheckingFirst(op, revocationRegistryId, tailsFilePath) ==
  LET st == [IdleIndy EXCEPT !.op = op,
                             !.revocationRegistryId = revocationRegistryId,
                             !.tailsFilePath = tailsFilePath]
  IN IF op # "createCredential"
       THEN [st EXCEPT !.pc = "await", !.pending = <<ToolkitFunction(op)>>]
       ELSE IF Truthy(revocationRegistryId) \/ Truthy(tailsFilePath)
         THEN IndyThrown(st, RevocationNotSupported)
         ELSE AfterTailsReader([st EXCEPT !.tailsReaderHandle = <<0>>])

IndyCalled(op, revocationRegistryId, tailsFilePath) ==
  LET st == [IdleIndy EXCEPT !.op = op,
                             !.revocationRegistryId = revocationRegistryId,
                             !.tailsFilePath = tailsFilePath]
  IN IF op # "createCredential"
       THEN [st EXCEPT !.pc = "await", !.pending = <<ToolkitFunction(op)>>]
       ELSE IF Truthy(tailsFilePath)
         THEN [st EXCEPT !.pc = "await", !.pending = <<"fileSystem.exists">>]
         ELSE AfterTailsReader([st EXCEPT !.tailsReaderHandle = <<0>>])

\* the awaited call resolves
IndyResolved(st, value) ==
  LET fn == st.pending[1]
  IN CASE fn = "fileSystem.exists" ->
            IF value
              THEN [st EXCEPT !.pending = <<"openBlobStorageReader">>]
              ELSE TailsReaderThrown(st, TailsFileMissing(st.tailsFilePath))
       [] fn = "openBlobStorageReader" ->
            AfterTailsReader([st EXCEPT !.tailsReaderHandle = <<value>>,
                                        !.pending = <<>>])
       [] OTHER ->
            [st EXCEPT !.pc = "done", !.pending = <<>>,
                       !.result = <<Returned(fn, value)>>]

\* the awaited call rejects
IndyRejected(st, error) ==
  IF st.pending[1] \in {"fileSystem.exists", "openBlobStorageReader"}
    THEN TailsReaderThrown(st, error)
    ELSE IndyThrown(st, error)

\* bound on the number of operations called one after the other
MaxIndyCalls == 2

\* the arguments createCredential looks at; the other operations pass theirs on
IndyArgs(op) ==
  IF op = "createCredential"
    THEN RevocationRegistryIds \X TailsFilePaths
    ELSE {<<Undefined, Undefined>>}

IndyCall ==
  /\ ic.pc \in {"idle", "done", "failed"}
  /\ tk.made < MaxIndyCalls
  /\ \E op \in IndyOps : \E args \in IndyArgs(op) :
       /\ ic' = IndyCalled(op, args[1], args[2])
       /\ tk' = [tk EXCEPT !.made = @ + 1, !.calls = ic'.pending,
                           !.returned = <<>>, !.errors = <<>>,
                           !.opened = <<>>]
  /\ UNCHANGED envelopeVars

ToolkitResolves ==
  /\ ic.pc = "await"
  /\ \E value \in ToolkitReturns(ic.pending[1]) :
       /\ ic' = IndyResolved(ic, value)
       /\ tk' = [tk EXCEPT
            !.calls = @ \o ic'.pending,
            !.returned = Append(@, value),
            !.opened = IF ic.pending[1] = "openBlobStorageReader"
                         THEN Append(@, value) ELSE @,
            !.openReaders = IF ic.pending[1] = "openBlobStorageReader"
                              THEN @ + 1 ELSE @]
  /\ UNCHANGED envelopeVars

ToolkitRejects ==
  /\ ic.pc = "await"
  /\ \E error \in ToolkitErrors :
       /\ ic' = IndyRejected(ic, error)
       /\ tk' = [tk EXCEPT !.errors = Append(@, error)]
  /\ UNCHANGED envelopeVars

----------------------------------------------------------------------------

Init ==
  /\ config \in [useLegacyDidSovPrefix : BOOLEAN]
  /\ pk = IdlePack
  /\ up = IdleUnpack
  /\ transit = {}
  /\ walletLog = EmptyWalletLog
  /\ cpk = [c \in PackIds |-> IdlePack]
  /\ clog = [c \in PackIds |-> <<>>]
  /\ ic = IdleIndy
  /\ tk = IdleToolkit

\* one packMessage call, and the agents that receive its WireMessage
Next ==
  \/ PackMessage
  \/ WalletPackResolvesNextHop
  \/ WalletPackResolvesReturn
  \/ WalletPackRejects
  \/ UnpackMessage
  \/ WalletUnpackResolves
  \/ WalletUnpackRejects
  \/ RelayForwards

Spec == Init /\ [][Next]_vars

\* packMessage calls and an unpackMessage call interleaved at their awaits
ConcNext ==
  \/ \E c \in PackIds : ConcPackMessage(c)
  \/ \E c \in PackIds : ConcWalletPackResolvesNextHop(c)
  \/ \E c \in PackIds : ConcWalletPackResolvesReturn(c)
  \/ \E c \in PackIds : ConcWalletPackRejects(c)
  \/ UnpackMessage
  \/ WalletUnpackResolves
  \/ WalletUnpackRejects

ConcSpec == Init /\ [][ConcNext]_vars

\* operations of the Indy services called one after the other
IndyNext ==
  \/ IndyCall
  \/ ToolkitResolves
  \/ ToolkitRejects

IndySpec == Init /\ [][IndyNext]_vars

----------------------------------------------------------------------------
(* Properties *)

Started == pk.pc # "idle"
CallerKeys == pk.keys[1]
NumRoutingKeys == Len(CallerKeys.routingKeys)
PayloadJson == toJSON(pk.payload[1], config.useLegacyDidSovPrefix)
\* JavaScript's a[0]
First(a) == IF Len(a) = 0 THEN Undefined ELSE a[1]

\* C1: a packMessage call with non-empty recipientKeys and N routing keys in
\* which no wallet call fails invokes wallet.pack exactly N+1 times, first for
\* the payload and then once per routing key in order; while it runs, each
\* loop iteration has consumed one routing key, built one ForwardMessage and
\* received one new WireMessage.
C1_PackCallCount ==
  (Started /\ CallerKeys.recipientKeys # <<>> /\ walletLog.packErrors = <<>>) =>
    /\ Len(walletLog.packCalls) = pk.hop + 1
    /\ Len(pk.forwards) = pk.hop
    /\ Len(walletLog.packReturns) = pk.hop + (IF pk.pc = "done" THEN 1 ELSE 0)
    /\ pk.hop <= NumRoutingKeys
    /\ walletLog.packCalls[1].message = PayloadJson
    /\ \A i \in 1..pk.hop :
         /\ walletLog.packCalls[i + 1].recipientKeys = <<CallerKeys.routingKeys[i]>>
         /\ IsForwardJson(walletLog.packCalls[i + 1].message)
    /\ pk.pc \in {"awaitPack", "done"}
    /\ pk.pc = "done" =>
         /\ pk.hop = NumRoutingKeys
         /\ Len(walletLog.packCalls) = NumRoutingKeys + 1
         /\ Len(walletLog.packReturns) = NumRoutingKeys + 1

C1_Witness ==
  /\ pk.pc = "done"
  /\ CallerKeys.recipientKeys # <<>>
  /\ NumRoutingKeys = 2
  /\ Len(walletLog.packCalls) = 3
  /\ walletLog.packErrors = <<>>

\* C2: the ForwardMessage built at hop i (0-indexed) has `to` equal to the
\* caller's recipientKeys[0] when i = 0 and to routingKeys[i-1] when i >= 1,
\* and its `message` is the WireMessage the previous wallet.pack call
\* returned; it is what the hop's pack call is given, serialised.
C2_ForwardAddress ==
  Started =>
    /\ Len(pk.forwards) <= Len(walletLog.packReturns)
    /\ Len(pk.forwards) < Len(walletLog.packCalls)
    /\ \A j \in 1..Len(pk.forwards) :
         /\ pk.forwards[j].to =
              (IF j = 1 THEN First(CallerKeys.recipientKeys)
                        ELSE CallerKeys.routingKeys[j - 1])
         /\ pk.forwards[j].message = walletLog.packReturns[j]
         /\ walletLog.packCalls[j + 1].message.to = pk.forwards[j].to
         /\ walletLog.packCalls[j + 1].message.message = pk.forwards[j].message

C2_Witness ==
  /\ Len(pk.forwards) = 2
  /\ CallerKeys.recipientKeys = <<"R1">>
  /\ CallerKeys.routingKeys = <<"M1", "M2">>
  /\ pk.forwards[1].to = "R1"
  /\ pk.forwards[2].to = "M1"
  /\ pk.forwards[2].message = walletLog.packReturns[2]

\* C3: every forward-layer wallet.pack call has no sender key and the one
\* recipient [routingKey], also when keys.senderKey is given; the innermost
\* call has keys.senderKey when that is not null, none otherwise, and the
\* whole keys.recipientKeys list.
C3_ForwardLayersAnonymous ==
  Started =>
    /\ walletLog.packCalls[1].senderKey =
         (IF CallerKeys.senderKey = Null THEN Undefined ELSE CallerKeys.senderKey)
    /\ walletLog.packCalls[1].recipientKeys = CallerKeys.recipientKeys
    /\ \A j \in 2..Len(walletLog.packCalls) :
         /\ walletLog.packCalls[j].senderKey = Undefined
         /\ walletLog.packCalls[j].recipientKeys = <<CallerKeys.routingKeys[j - 1]>>

C3_Witness ==
  /\ Started
  /\ CallerKeys.senderKey = "S1"
  /\ Len(walletLog.packCalls) = 3
  /\ walletLog.packCalls[1].senderKey = "S1"
  /\ walletLog.packCalls[3].senderKey = Undefined

\* C4: with no routing keys, a non-empty recipientKeys R and any senderKey,
\* the returned WireMessage can be unpacked by the holder of each key of R and
\* by no other; unpackMessage on it by such a holder returns the serialised
\* payload as message, the holder's key, a member of R, as recipientKey, and
\* as senderKey the key given for packing, or none when none was given.
C4_RoundTripNoRouting ==
  (pk.pc = "done" /\ NumRoutingKeys = 0 /\ CallerKeys.recipientKeys # <<>>) =>
    /\ \A k \in Keys :
         WalletCanUnpack(pk.result[1], k) <=> k \in Range(CallerKeys.recipientKeys)
    /\ (up.pc = "done" /\ up.packedMessage = pk.result) =>
         /\ up.result[1].message = PayloadJson
         /\ up.result[1].recipientKey = up.walletKey
         /\ up.result[1].recipientKey \in Range(CallerKeys.recipientKeys)
         /\ up.result[1].senderKey =
              (IF CallerKeys.senderKey = Null THEN Undefined ELSE CallerKeys.senderKey)

C4_Witness ==
  /\ pk.pc = "done"
  /\ NumRoutingKeys = 0
  /\ CallerKeys.recipientKeys = <<"R1", "M1">>
  /\ CallerKeys.senderKey = "S1"
  /\ up.pc = "done"
  /\ up.packedMessage = pk.result
  /\ up.walletKey = "M1"
  /\ up.result[1].senderKey = "S1"
  /\ up.result[1].message = PayloadJson

\* the layers of wire from the outside in: layer j >= 1 is the forward layer
\* of routing key j, layer 0 the payload's
RECURSIVE LayersPeel(_, _)
LayersPeel(wire, j) ==
  IF j = 0
    THEN /\ \A k \in Keys :
              WalletCanUnpack(wire, k) <=> k \in Range(CallerKeys.recipientKeys)
         /\ \A k \in Range(CallerKeys.recipientKeys) :
              WalletUnpack(wire, k).message = PayloadJson
    ELSE LET forward == WalletUnpack(wire, CallerKeys.routingKeys[j]).message
         IN /\ \A k \in Keys : WalletCanUnpack(wire, k) <=> k = CallerKeys.routingKeys[j]
            /\ IsForwardJson(forward)
            /\ forward.to = (IF j = 1 THEN CallerKeys.recipientKeys[1]
                                      ELSE CallerKeys.routingKeys[j - 1])
            /\ WalletCanUnpack(forward.message, forward.to)
            /\ LayersPeel(forward.message, j - 1)

\* C5: for N >= 1 routing keys (and a recipient key), the returned WireMessage
\* is readable with the last routing key only; unpacking with the routing
\* keys from the last to the first yields at each step a ForwardMessage whose
\* `to` is the key that reads its embedded message (the previous routing key,
\* at last recipientKeys[0]), and the innermost layer unpacks to the
\* serialised payload; each forward layer is readable with its own routing
\* key and no other key.  A receiving agent's unpackMessage of a message in
\* transit yields just that layer's content.
C5_LayeredUnwrap ==
  (pk.pc = "done" /\ NumRoutingKeys >= 1 /\ CallerKeys.recipientKeys # <<>>) =>
    /\ LayersPeel(pk.result[1], NumRoutingKeys)
    /\ up.pc = "done" =>
         /\ up.walletKey \in Range(up.packedMessage[1].recipients)
         /\ IF IsForwardJson(up.result[1].message)
              THEN /\ WalletCanUnpack(up.result[1].message.message,
                                      up.result[1].message.to)
                   /\ up.packedMessage[1].recipients = <<up.walletKey>>
              ELSE up.result[1].message = PayloadJson

C5_Witness ==
  /\ pk.pc = "done"
  /\ CallerKeys.recipientKeys = <<"R1">>
  /\ CallerKeys.routingKeys = <<"M1", "M2">>
  /\ up.pc = "done"
  /\ up.walletKey = "M1"
  /\ IsForwardJson(up.result[1].message)
  /\ up.result[1].message.to = "R1"
  /\ up.result[1].message.message \in transit

\* C6: packMessage called with an empty recipientKeys list fails with a
\* ConfigurationError before any wallet.pack call is made, whatever the
\* routingKeys.
C6_EmptyRecipientsRefused ==
  (Started /\ CallerKeys.recipientKeys = <<>>) =>
    /\ pk.pc = "failed"
    /\ pk.error = <<[name |-> "ConfigurationError"]>>
    /\ walletLog.packCalls = <<>>

\* C7 (in every state): once a wallet.pack call has failed, packMessage has
\* failed, has returned no WireMessage, has no pack call in flight, and has
\* built ForwardMessages for the hops before the failed call only; every
\* ForwardMessage ever built embeds the WireMessage a completed pack call
\* returned.
C7_FailedState ==
  /\ walletLog.packErrors # <<>> =>
       /\ pk.pc = "failed"
       /\ pk.result = <<>>
       /\ pk.pending = <<>>
       /\ transit = {}
       /\ Len(walletLog.packErrors) = 1
       /\ Len(walletLog.packCalls) = Len(walletLog.packReturns) + 1
       /\ Len(pk.forwards) = Len(walletLog.packCalls) - 1
  /\ pk.pc = "failed" => walletLog.packErrors # <<>>
  /\ \A j \in 1..Len(pk.forwards) :
       /\ j <= Len(walletLog.packReturns)
       /\ pk.forwards[j].message = walletLog.packReturns[j]

\* C7 (in every step): a failed packMessage call does nothing more: no pack
\* call, no ForwardMessage, no result.
C7_FailedStep ==
  pk.pc = "failed" => (pk' = pk /\ walletLog'.packCalls = walletLog.packCalls
                                /\ transit' = transit)

\* C7: a wallet.pack failure at any pack call fails packMessage, which returns
\* no WireMessage, makes no further pack call and builds no further
\* ForwardMessage; a ForwardMessage is built only from the result of a pack
\* call that completed.
C7_FailureAborts == []C7_FailedState /\ [][C7_FailedStep]_vars

C7_Witness ==
  /\ pk.pc = "failed"
  /\ NumRoutingKeys = 2
  /\ Len(walletLog.packCalls) = 2
  /\ Len(pk.forwards) = 1
  /\ walletLog.packErrors # <<>>
  /\ transit = {}

\* C8: a failure of wallet.pack or wallet.unpack is the failure of the
\* packMessage or unpackMessage call that made it, with the wallet's error as
\* it was raised; no call returns after one, and no wallet call is made again:
\* at most one pack call per layer of a packMessage call and one unpack call
\* per unpackMessage call.
C8_FailuresSurfaceNoRetry ==
  /\ walletLog.packErrors # <<>> =>
       (pk.pc = "failed" /\ pk.error = walletLog.packErrors /\ pk.result = <<>>)
  /\ Len(walletLog.packErrors) <= 1
  /\ Len(walletLog.packCalls) <= pk.hop + 1
  /\ Started => Len(walletLog.packCalls) <= NumRoutingKeys + 1
  /\ walletLog.unpackErrors # <<>> =>
       (up.pc = "failed" /\ up.error = walletLog.unpackErrors /\ up.result = <<>>)
  /\ Len(walletLog.unpackErrors) <= 1
  /\ Len(walletLog.unpackCalls) <= 1
  /\ pk.pc = "failed" <=> pk.error # <<>>
  /\ up.pc = "failed" <=> up.error # <<>>

C8_Witness ==
  /\ pk.pc = "failed"
  /\ pk.hop = 2
  /\ pk.error = <<[name |-> "WalletInvalidStructure"]>>
  /\ walletLog.packErrors = <<[name |-> "WalletInvalidStructure"]>>
  /\ Len(walletLog.packCalls) = 3

\* C9: an unpackMessage call makes exactly one wallet.unpack call, on the
\* WireMessage it was given, and returns what that call returned (message,
\* senderKey, recipientKey) unchanged; a decrypted forward message is returned
\* as it is, its embedded WireMessage still packed.
C9_UnpackOneLayer ==
  /\ up.pc # "idle" =>
       /\ Len(walletLog.unpackCalls) = 1
       /\ walletLog.unpackCalls = up.packedMessage
  /\ up.pc = "done" =>
       /\ up.result = walletLog.unpackReturns
       /\ Len(up.result) = 1
       /\ up.result[1] = WalletUnpack(up.packedMessage[1], up.walletKey)
       /\ IsForwardJson(up.result[1].message) =>
            /\ up.result[1].message = up.packedMessage[1].plaintext
            /\ up.result[1].message.message \in Range(walletLog.packReturns)
            /\ up.result[1].message.message \notin Range(walletLog.unpackCalls)
  /\ up.pc # "done" => up.result = <<>>

C9_Witness ==
  /\ up.pc = "done"
  /\ IsForwardJson(up.result[1].message)
  /\ up.result[1].message.to = "M1"
  /\ up.result[1].recipientKey = "M2"
  /\ up.result[1].senderKey = Undefined
  /\ Len(walletLog.unpackCalls) = 1

\* C10 as stated: packMessage called with more than one recipient key and at
\* least one routing key fails with an UnsupportedOperationError (here: when
\* the call is over and no wallet call has failed, it has failed so).
C10_FanOutRefused ==
  (/\ Started /\ Len(CallerKeys.recipientKeys) > 1 /\ NumRoutingKeys >= 1
   /\ walletLog.packErrors = <<>> /\ pk.pc \in {"done", "failed"}) =>
    /\ pk.pc = "failed"
    /\ pk.error = <<[name |-> "UnsupportedOperationError"]>>

\* C10, amended: packMessage called with more than one recipient key and at
\* least one routing key raises no UnsupportedOperationError: it fails only
\* with the error of a failed wallet.pack call, and otherwise packs the
\* innermost layer for all the recipient keys, addresses the first
\* ForwardMessage to recipientKeys[0] alone and returns.
C10_FanOutForwardsToFirst ==
  (Started /\ Len(CallerKeys.recipientKeys) > 1 /\ NumRoutingKeys >= 1) =>
    /\ pk.pc = "failed" => (pk.error = walletLog.packErrors /\ pk.error[1] \in WalletErrors)
    /\ walletLog.packErrors = <<>> => pk.pc \in {"awaitPack", "done"}
    /\ walletLog.packCalls[1].recipientKeys = CallerKeys.recipientKeys
    /\ Len(pk.forwards) >= 1 => pk.forwards[1].to = CallerKeys.recipientKeys[1]
    /\ pk.pc = "done" => Len(pk.forwards) = NumRoutingKeys

C10_Witness ==
  /\ pk.pc = "done"
  /\ CallerKeys.recipientKeys = <<"R1", "M1">>
  /\ CallerKeys.routingKeys = <<"M2">>
  /\ pk.forwards[1].to = "R1"
  /\ walletLog.packCalls[1].recipientKeys = <<"R1", "M1">>
  /\ pk.result # <<>>

\* C11: every error packMessage raises while it is in the forwarding loop
\* identifies the index of the hop at which the failure occurred and the key
\* that caused it.
C11_LoopErrorsIdentifyHop ==
  (pk.pc = "failed" /\ pk.hop >= 1) =>
    /\ {"hop", "key"} \subseteq DOMAIN pk.error[1]
    /\ pk.error[1].hop = pk.hop - 1
    /\ pk.error[1].key = CallerKeys.routingKeys[pk.hop]

\* the wallet.pack calls made and not yet answered
PackCallsInFlight ==
  Len(walletLog.packCalls) - Len(walletLog.packReturns) - Len(walletLog.packErrors)

\* C13 (in every state): at most one wallet.pack call of the packMessage call
\* is in flight; the call for routing key i follows the completed call of the
\* layer inside it, embeds the WireMessage that call returned and is made for
\* routingKeys[i], the keys being taken in their order.
C13_SequentialState ==
  /\ PackCallsInFlight \in {0, 1}
  /\ PackCallsInFlight = Len(pk.pending)
  /\ \A j \in 2..Len(walletLog.packCalls) :
       /\ j - 1 <= Len(walletLog.packReturns)
       /\ walletLog.packCalls[j].message.message = walletLog.packReturns[j - 1]
       /\ walletLog.packReturns[j - 1] =
            WalletPack(walletLog.packCalls[j - 1].message,
                       walletLog.packCalls[j - 1].recipientKeys,
                       walletLog.packCalls[j - 1].senderKey)
       /\ walletLog.packCalls[j].recipientKeys = <<CallerKeys.routingKeys[j - 1]>>

\* C13 (in every step): a further wallet.pack call is made, one at a time, in
\* the step in which the call before it returns.
C13_SequentialStep ==
  (Started /\ Len(walletLog.packCalls') > Len(walletLog.packCalls)) =>
    /\ Len(walletLog.packCalls') = Len(walletLog.packCalls) + 1
    /\ Len(walletLog.packReturns) = Len(walletLog.packCalls) - 1
    /\ Len(walletLog.packReturns') = Len(walletLog.packCalls)
    /\ walletLog.packErrors' = <<>>

\* C13: the wallet.pack calls of one packMessage call are strictly sequential
\* and in routingKeys order.
C13_PackCallsSequential == []C13_SequentialState /\ [][C13_SequentialStep]_vars

C13_Witness ==
  /\ pk.pc = "awaitPack"
  /\ Len(walletLog.packCalls) = 3
  /\ Len(walletLog.packReturns) = 2
  /\ PackCallsInFlight = 1
  /\ walletLog.packCalls[3].message.message = walletLog.packReturns[2]

\* C14: the value a successful packMessage call returns is the WireMessage
\* its last wallet.pack call returned: the innermost one when there is no
\* routing key, else the layer packed for the last routing key, and never a
\* WireMessage of a layer inside it.
C14_ReturnsOutermost ==
  pk.pc = "done" =>
    /\ Len(walletLog.packReturns) = NumRoutingKeys + 1
    /\ pk.result = <<walletLog.packReturns[NumRoutingKeys + 1]>>
    /\ pk.result[1].recipients =
         (IF NumRoutingKeys = 0 THEN CallerKeys.recipientKeys
                                ELSE <<CallerKeys.routingKeys[NumRoutingKeys]>>)
    /\ \A j \in 1..NumRoutingKeys : pk.result[1] # walletLog.packReturns[j]
    /\ transit # {} => pk.result[1] \in transit

C14_Witness ==
  /\ pk.pc = "done"
  /\ CallerKeys.routingKeys = <<"M2", "M1">>
  /\ pk.result[1].recipients = <<"M1">>
  /\ pk.result[1].plaintext.message = walletLog.packReturns[2]

\* C15: every serialisation of one packMessage call, the payload's and each
\* ForwardMessage's, is given the service's configured useLegacyDidSovPrefix,
\* and every message handed to wallet.pack has its type rendered accordingly.
C15_LegacyPrefixThreaded ==
  Started =>
    /\ Len(pk.toJSONCalls) = Len(walletLog.packCalls)
    /\ \A j \in 1..Len(pk.toJSONCalls) :
         pk.toJSONCalls[j] = config.useLegacyDidSovPrefix
    /\ \A j \in 1..Len(walletLog.packCalls) :
         walletLog.packCalls[j].message.type[1] =
           (IF config.useLegacyDidSovPrefix THEN LegacyDidSovPrefix ELSE DidCommPrefix)

C15_Witness ==
  /\ config.useLegacyDidSovPrefix
  /\ Len(pk.toJSONCalls) = 3
  /\ walletLog.packCalls[1].message.type[1] = LegacyDidSovPrefix
  /\ walletLog.packCalls[3].message.type[1] = LegacyDidSovPrefix

\* C16: no step of a packMessage call, to its return or its failure, changes
\* the caller's payload or keys (recipientKeys, routingKeys, senderKey: the
\* working recipient list is the call's own) or a field of the service.
C16_InputsUntouchedStep ==
  /\ config' = config
  /\ Started => (pk'.keys = pk.keys /\ pk'.payload = pk.payload)

C16_InputsUntouched == [][C16_InputsUntouchedStep]_vars

C16_Witness ==
  /\ pk.pc \in {"done", "failed"}
  /\ CallerKeys.recipientKeys = <<"R1", "M1">>
  /\ pk.recipientKeys = <<"M2">>
  /\ pk.hop = 2

\* the j-th wallet.pack call of packMessage(payload, keys) run alone, every
\* earlier call having returned
RECURSIVE AlonePackCall(_, _, _)
AlonePackCall(payload, keys, j) ==
  IF j = 1
    THEN [message |-> toJSON(payload, config.useLegacyDidSovPrefix),
          recipientKeys |-> keys.recipientKeys,
          senderKey |-> IF keys.senderKey = Null THEN Undefined ELSE keys.senderKey]
    ELSE LET inner == AlonePackCall(payload, keys, j - 1)
             wire == WalletPack(inner.message, inner.recipientKeys, inner.senderKey)
             to == IF j = 2 THEN First(keys.recipientKeys) ELSE keys.routingKeys[j - 2]
         IN [message |-> toJSON(ForwardMessage(to, wire), config.useLegacyDidSovPrefix),
             recipientKeys |-> <<keys.routingKeys[j - 1]>>,
             senderKey |-> Undefined]

\* the WireMessage that call returns
AloneWire(payload, keys, j) ==
  LET call == AlonePackCall(payload, keys, j)
  IN WalletPack(call.message, call.recipientKeys, call.senderKey)

\* the single call of Spec, which runs alone, makes these calls
AloneIsTheSingleCall ==
  Started => \A j \in 1..Len(walletLog.packCalls) :
               walletLog.packCalls[j] = AlonePackCall(pk.payload[1], CallerKeys, j)

\* call c has made the wallet.pack calls, holds the working values and has
\* the result of the same call run alone
AsRunAlone(c) ==
  LET st == cpk[c]
      payload == st.payload[1]
      keys == st.keys[1]
      returned == IF st.pc = "done" THEN st.hop + 1 ELSE st.hop
  IN /\ payload = ConcPayload(c)
     /\ Len(clog[c]) = st.hop + 1
     /\ \A j \in 1..Len(clog[c]) : clog[c][j] = AlonePackCall(payload, keys, j)
     /\ st.recipientKeys =
          (IF st.hop = 0 THEN keys.recipientKeys ELSE <<keys.routingKeys[st.hop]>>)
     /\ st.wireMessage =
          (IF returned = 0 THEN <<>> ELSE <<AloneWire(payload, keys, returned)>>)
     /\ st.pc = "done" =>
          /\ st.hop = Len(keys.routingKeys)
          /\ st.result = <<AloneWire(payload, keys, Len(keys.routingKeys) + 1)>>
     /\ st.pc # "done" => st.result = <<>>
     /\ st.pc = "failed" <=> st.error # <<>>

\* C12: packMessage calls and an unpackMessage call on one EnvelopeService,
\* interleaved in any way at their awaits, do not interfere: each packMessage
\* call makes the wallet.pack calls, with the arguments, and returns the
\* result of the same call run alone, its working recipient list and working
\* WireMessage being its own; each unpackMessage call makes the one
\* wallet.unpack call on its own argument and returns that call's result.
C12_NoInterference ==
  /\ \A c \in PackIds : cpk[c].pc # "idle" => AsRunAlone(c)
  /\ transit = UNION {Range(cpk[c].result) : c \in PackIds}
  /\ up.pc # "idle" =>
       /\ walletLog.unpackCalls = up.packedMessage
       /\ up.packedMessage[1] \in transit
  /\ up.pc = "done" =>
       up.result = <<WalletUnpack(up.packedMessage[1], up.walletKey)>>

C12_Witness ==
  /\ cpk["a"].pc = "done"
  /\ cpk["a"].hop = 2
  /\ cpk["b"].pc = "awaitPack"
  /\ cpk["b"].hop = 1
  /\ cpk["a"].recipientKeys # cpk["b"].recipientKeys
  /\ cpk["a"].keys[1].recipientKeys # cpk["b"].keys[1].recipientKeys
  /\ up.pc = "awaitUnpack"

\* each wallet.pack call eventually returns or fails
WalletAnswersPack ==
  WalletPackResolvesNextHop \/ WalletPackResolvesReturn \/ WalletPackRejects

FairSpec == Spec /\ WF_vars(WalletAnswersPack)

PackOver == pk.pc \in {"done", "failed"}

\* C17 (in every state): a packMessage call has made at most N+1 wallet.pack
\* calls, and exactly N+1 when it has returned.
C17_BoundedState ==
  Started =>
    /\ pk.hop <= NumRoutingKeys
    /\ Len(walletLog.packCalls) <= NumRoutingKeys + 1
    /\ pk.pc = "done" => Len(walletLog.packReturns) = NumRoutingKeys + 1
    /\ pk.pc = "failed" => Len(walletLog.packErrors) = 1

\* C17 (in every step): the call never goes back to an earlier hop, each
\* wallet answer moves it to the next hop or ends it, and an ended call stays
\* ended.
C17_ProgressStep ==
  /\ pk'.hop >= pk.hop
  /\ (Started /\ pk' # pk) => (pk'.hop = pk.hop + 1 \/ (~PackOver /\ PackOver'))
  /\ PackOver => pk' = pk

\* C17: every packMessage call terminates when each wallet.pack call returns
\* or fails: it comes to a returned WireMessage after N+1 pack calls or to a
\* failure after at most N+1, and never loops back to an earlier hop.
C17_PackTerminates ==
  /\ (Started ~> PackOver)
  /\ []C17_BoundedState
  /\ [][C17_ProgressStep]_vars

C17_Witness ==
  /\ pk.pc = "done"
  /\ NumRoutingKeys = 2
  /\ Len(walletLog.packReturns) = 3
  /\ up.pc = "idle"

----------------------------------------------------------------------------
(* Indy services *)

IndyOver == ic.pc \in {"done", "failed"}

CalledToolkit(fn) == fn \in Range(tk.calls)

\* the existence check of the tails file was made and answered with `exists`
TailsFileChecked(exists) ==
  /\ tk.calls # <<>> /\ tk.calls[1] = "fileSystem.exists"
  /\ tk.returned # <<>> /\ tk.returned[1] = exists

CreateCredentialWith(revocation, tails) ==
  /\ ic.op = "createCredential"
  /\ revocation \/ tails

\* C18 as stated: with a revocationRegistryId or a tailsFilePath supplied (a
\* non-empty string, which is what the code tests),
\* createCredential never calls issuerCreateCredential and fails with
\* 'Revocation not supported yet'; with a tailsFilePath the existence check
\* and the reader open come first, a missing file is reported as 'Tails file
\* does not exist' instead and an existing one leaves a reader opened.
C18_RevocationRejected ==
  CreateCredentialWith(Truthy(ic.revocationRegistryId),
                       Truthy(ic.tailsFilePath)) =>
    /\ ~CalledToolkit("issuerCreateCredential")
    /\ IndyOver =>
         /\ ic.pc = "failed"
         /\ ic.error =
              <<IF Truthy(ic.tailsFilePath) /\ TailsFileChecked(FALSE)
                  THEN TailsFileMissing(ic.tailsFilePath)
                  ELSE RevocationNotSupported>>
    /\ (Truthy(ic.tailsFilePath) /\ ic.error = <<RevocationNotSupported>>) =>
         tk.calls = <<"fileSystem.exists", "openBlobStorageReader">>
    /\ (Truthy(ic.tailsFilePath) /\ IndyOver /\ TailsFileChecked(TRUE)) =>
         Len(tk.opened) = 1

\* C18 (amended): with a revocationRegistryId or a tailsFilePath supplied,
\* createCredential never calls issuerCreateCredential and always fails: with
\* 'Revocation not supported yet' unless the tails step fails first. With a
\* tailsFilePath the existence check and the reader open come before
\* that rejection: a missing file is reported as 'Tails file does not exist',
\* a failure of the check or of the open is reported in place of either
\* message, and an open that succeeds leaves a reader opened by the failing
\* call.
C18_RevocationRejectedUnlessTailsStepFails ==
  CreateCredentialWith(Truthy(ic.revocationRegistryId),
                       Truthy(ic.tailsFilePath)) =>
    /\ ~CalledToolkit("issuerCreateCredential")
    /\ IndyOver => ic.pc = "failed"
    /\ (IndyOver /\ tk.errors = <<>>) =>
         ic.error =
           <<IF Truthy(ic.tailsFilePath) /\ TailsFileChecked(FALSE)
               THEN TailsFileMissing(ic.tailsFilePath)
               ELSE RevocationNotSupported>>
    /\ tk.errors # <<>> =>
         /\ ic.pc = "failed"
         /\ tk.opened = <<>>
         /\ \/ ic.error = tk.errors
            \/ ic.error[1].cause = tk.errors
    /\ (Truthy(ic.tailsFilePath) /\ ic.error = <<RevocationNotSupported>>) =>
         /\ tk.calls = <<"fileSystem.exists", "openBlobStorageReader">>
         /\ TailsFileChecked(TRUE)
         /\ Len(tk.opened) = 1
         /\ ic.tailsReaderHandle = tk.opened
         /\ tk.openReaders >= 1
    /\ (Truthy(ic.tailsFilePath) /\ IndyOver /\ TailsFileChecked(TRUE)
          /\ tk.errors = <<>>) =>
         Len(tk.opened) = 1
    /\ ~Truthy(ic.tailsFilePath) => tk.calls = <<>>

\* a call with a tails file that exists has failed and left its reader open
C18_Witness ==
  /\ ic.op = "createCredential" /\ ic.pc = "failed"
  /\ ic.tailsFilePath = "tails/path"
  /\ ic.error = <<RevocationNotSupported>>
  /\ TailsFileChecked(TRUE)
  /\ Len(tk.opened) = 1 /\ tk.openReaders >= 1

\* how the operation surfaces a failure of the toolkit
Surfaced(error) ==
  IF error.name = "IndyError"
    THEN [name |-> "IndySdkError", detail |-> error.detail, cause |-> <<error>>]
    ELSE error

\* C19: every operation either returns what its toolkit function resolved
\* with or fails; a toolkit failure that is an Indy error is surfaced as an
\* IndySdkError wrapping it exactly once (also across createTailsReader), any
\* other failure is thrown again unchanged, and no failure becomes a return
\* value.
C19_ResultOrFailure ==
  /\ ic.pc = "done" =>
       /\ tk.errors = <<>> /\ ic.error = <<>>
       /\ tk.calls[Len(tk.calls)] = ToolkitFunction(ic.op)
       /\ Len(tk.returned) = Len(tk.calls)
       /\ ic.result =
            <<Returned(ToolkitFunction(ic.op), tk.returned[Len(tk.returned)])>>
  /\ tk.errors # <<>> =>
       /\ Len(tk.errors) = 1
       /\ ic.pc = "failed"
       /\ ic.error = <<Surfaced(tk.errors[1])>>
  /\ ic.pc = "failed" =>
       /\ ic.result = <<>>
       /\ Len(ic.error) = 1
       /\ tk.errors = <<>> => ic.error[1].name = "AriesFrameworkError"
  /\ ic.pc \in {"idle", "await"} => ic.result = <<>> /\ ic.error = <<>>

\* an Indy error of the reader open has crossed both catch blocks
C19_Witness ==
  /\ ic.op = "createCredential" /\ ic.pc = "failed"
  /\ tk.calls = <<"fileSystem.exists", "openBlobStorageReader">>
  /\ tk.errors # <<>> /\ tk.errors[1].name = "IndyError"
  /\ ic.error[1].name = "IndySdkError"
  /\ ic.error[1].cause = tk.errors

=============================================================================
